---- MODULE Spec2Model ----
(***************************************************************************)
(* Model of findings/models.py of PatrowlManager: the RawFinding and       *)
(* Finding entities, their save() overrides, the post_save / post_delete   *)
(* receivers, FindingManager.severity_ordering and evaluate_alert_rules.   *)
(*                                                                         *)
(* Strings are sequences of characters, byte strings are sequences of      *)
(* byte values.  The rows of the two tables are functions from primary key *)
(* to record.  A Python instance held by a caller is a record separate     *)
(* from the row it was read from.                                          *)
(***************************************************************************)
EXTENDS Integers, Sequences, FiniteSets, TLC

\* ------------------------------------------------------------------ bounds
MaxTime == 2
MaxId == 1
MaxLen == 1
MaxRules == 2
MaxRows == 4
MaxWorkers == 2

\* ------------------------------------------------------------- value sets
Chars == {"a", "b", "U+00E9"}

IsAscii(c) == c \in {"a", "b"}

StringsUpTo(n) == UNION {[1..k -> Chars] : k \in 0..n}

AsciiStringsUpTo(n) == UNION {[1..k -> {"a", "b"}] : k \in 0..n}

Assets == {1, 2}

Ids == 1..MaxId

Times == 0..MaxTime

Pythons == {2, 3}

\* the five declared choices plus a label outside them
SeverityLabels == {"info", "low", "medium", "high", "critical", "unknown"}

FINDING_SEVERITIES == {"info", "low", "medium", "high", "critical"}

\* py: the interpreter's major version; now: the clock; assets: the ids the
\* Asset collaborator resolves; rawFindings, findings: the two tables;
\* lastId: the tables' id sequences; held: the instance a caller holds;
\* rules: the Rule collaborator's rows, in the order a query returns them;
\* result: what the last operation did; probe: the arguments and the value
\* of a function applied outside any stored entity
\* workers: the position of each of the callers that run side by side;
\* grades: for each asset, the findings and severities that the last
\* calc_risk_grade() on it read
VARIABLES py, now, assets, rawFindings, findings, lastId, held, rules, result, probe,
          workers, grades

vars == <<py, now, assets, rawFindings, findings, lastId, held, rules, result, probe,
          workers, grades>>

\* ---------------------------------------------------------------- hashing
\* str(x) of a text value: the text itself; under Python 2 it encodes with
\* the ascii codec and raises UnicodeEncodeError on a non-ASCII character.
StrRaises(s) == py = 2 /\ \E i \in 1..Len(s) : ~IsAscii(s[i])

Str(s) == s

\* one character's UTF-8 bytes
EncodeChar(c) ==
    CASE c = "a" -> <<97>>
      [] c = "b" -> <<98>>
      [] c = "U+00E9" -> <<195, 169>>

RECURSIVE Encode(_)
Encode(s) == IF s = <<>> THEN <<>> ELSE EncodeChar(Head(s)) \o Encode(Tail(s))

\* hashlib.sha1(bytes).hexdigest(): the digest is taken as collision-free,
\* so it is represented by the byte string it was computed from.
Sha1Hex(bytes) == [sha1 |-> bytes]

ComputeHash_NameOnly(asset_name, title) ==
    Sha1Hex(Encode(Str(asset_name)))

ComputeHash(asset_name, title) ==
    Sha1Hex(Encode(Str(asset_name)) \o Encode(Str(title)))

\* a hash value no save computed (supplied by a caller, or the '' default)
BogusHash == [sha1 |-> <<0>>]

\* ------------------------------------------------------------------- save
RawFinding_save_KeepRank(self) ==
    [self EXCEPT
        !.hash = ComputeHash(self.asset_name, self.title),
        !.updated_at = IF ~self.adding THEN now ELSE self.updated_at]

RawFinding_save(self) ==
    [self EXCEPT
        !.hash = ComputeHash(self.asset_name, self.title),
        !.severity_num =
            IF self.severity = "info" THEN 1
            ELSE IF self.severity = "low" THEN 2
            ELSE IF self.severity = "medium" THEN 3
            ELSE IF self.severity = "high" THEN 4
            ELSE 0,
        !.updated_at = IF ~self.adding THEN now ELSE self.updated_at]

Finding_save_AlwaysTouch(self) ==
    [self EXCEPT
        !.hash = ComputeHash(self.asset_name, self.title),
        !.severity_num =
            IF self.severity = "info" THEN 1
            ELSE IF self.severity = "low" THEN 2
            ELSE IF self.severity = "medium" THEN 3
            ELSE IF self.severity = "high" THEN 4
            ELSE 0,
        !.updated_at = now]

Finding_save_KeepHash(self) ==
    [self EXCEPT
        !.severity_num =
            IF self.severity = "info" THEN 1
            ELSE IF self.severity = "low" THEN 2
            ELSE IF self.severity = "medium" THEN 3
            ELSE IF self.severity = "high" THEN 4
            ELSE 0,
        !.updated_at = IF ~self.adding THEN now ELSE self.updated_at]

Finding_save(self) ==
    [self EXCEPT
        !.hash = ComputeHash(self.asset_name, self.title),
        !.severity_num =
            IF self.severity = "info" THEN 1
            ELSE IF self.severity = "low" THEN 2
            ELSE IF self.severity = "medium" THEN 3
            ELSE IF self.severity = "high" THEN 4
            ELSE 0,
        !.updated_at = IF ~self.adding THEN now ELSE self.updated_at]

\* ------------------------------------------------- instances, rows, calls
NoInst == [id |-> 0]

NoHeld == [kind |-> "none", inst |-> NoInst]

Held(kind, inst) == [kind |-> kind, inst |-> inst]

\* RawFinding(...): a new, unsaved instance
NewRawFinding(asset, asset_name, title, severity, severity_num, created_at, updated_at) ==
    [id |-> 0, adding |-> TRUE, asset |-> asset, asset_name |-> asset_name,
     title |-> title, severity |-> severity, severity_num |-> severity_num,
     hash |-> BogusHash, created_at |-> created_at, updated_at |-> updated_at]

\* Finding(...): a new, unsaved instance
NewFinding(raw_finding, asset, asset_name, title, severity, severity_num, created_at, updated_at) ==
    [id |-> 0, adding |-> TRUE, raw_finding |-> raw_finding, asset |-> asset,
     asset_name |-> asset_name, title |-> title, severity |-> severity,
     severity_num |-> severity_num, hash |-> BogusHash,
     created_at |-> created_at, updated_at |-> updated_at]

\* one call an operation makes on the store or on a collaborator
Call(call, type, kind, id, severity) ==
    [call |-> call, type |-> type, kind |-> kind, id |-> id, severity |-> severity]

Db(type, kind, id) == Call("db", type, kind, id, "")

EventCreate(type, kind, id) == Call("Event.objects.create", type, kind, id, "DEBUG")

CalcRiskGrade(asset) == Call("calc_risk_grade", "", "Asset", asset, "")

AssetGet(asset) == Call("Asset.objects.get", "", "Asset", asset, "")

Notify(rule) == Call("notify", "", "Rule", rule, "")

Handled(trace, outcome) == [trace |-> trace, outcome |-> outcome]

\* -------------------------------------------------------------- receivers
rawfinding_create_update_log_WithCalc(created, instance) ==
    Handled(<<CalcRiskGrade(instance.asset),
              EventCreate(IF created THEN "CREATE" ELSE "UPDATE", "RawFinding", instance.id)>>,
            "ok")

rawfinding_create_update_log(created, instance) ==
    IF created
    THEN Handled(<<EventCreate("CREATE", "RawFinding", instance.id)>>, "ok")
    ELSE Handled(<<EventCreate("UPDATE", "RawFinding", instance.id)>>, "ok")

rawfinding_delete_log_AsUpdate(instance) ==
    Handled(<<EventCreate("UPDATE", "RawFinding", instance.id)>>, "ok")

rawfinding_delete_log(instance) ==
    Handled(<<EventCreate("DELETE", "RawFinding", instance.id)>>, "ok")

finding_create_update_log_Evaluates(created, instance, calcOk) ==
    IF created
    THEN Handled(<<EventCreate("CREATE", "Finding", instance.id), Notify(1)>>, "ok")
    ELSE IF ~calcOk
    THEN Handled(<<CalcRiskGrade(instance.asset)>>, "CalcRiskGradeError")
    ELSE Handled(<<CalcRiskGrade(instance.asset),
                   EventCreate("UPDATE", "Finding", instance.id)>>, "ok")

finding_create_update_log_CalcOnCreate(created, instance, calcOk) ==
    IF ~calcOk
    THEN Handled(<<CalcRiskGrade(instance.asset)>>, "CalcRiskGradeError")
    ELSE Handled(<<CalcRiskGrade(instance.asset),
                   EventCreate(IF created THEN "CREATE" ELSE "UPDATE", "Finding", instance.id)>>,
                 "ok")

\* calcOk: whether the Asset collaborator's calc_risk_grade() returns
finding_create_update_log(created, instance, calcOk) ==
    IF created
    THEN Handled(<<EventCreate("CREATE", "Finding", instance.id)>>, "ok")
    ELSE IF instance.asset \notin assets
    THEN Handled(<<>>, "DoesNotExist")
    ELSE IF ~calcOk
    THEN Handled(<<CalcRiskGrade(instance.asset)>>, "CalcRiskGradeError")
    ELSE Handled(<<CalcRiskGrade(instance.asset),
                   EventCreate("UPDATE", "Finding", instance.id)>>, "ok")

finding_delete_log_NoResolve(instance, calcOk) ==
    IF ~calcOk
    THEN Handled(<<CalcRiskGrade(instance.asset)>>, "CalcRiskGradeError")
    ELSE Handled(<<CalcRiskGrade(instance.asset),
                   EventCreate("DELETE", "Finding", instance.id)>>, "ok")

finding_delete_log_EventFirst(instance, calcOk) ==
    IF instance.asset \notin assets
    THEN Handled(<<AssetGet(instance.asset)>>, "DoesNotExist")
    ELSE IF ~calcOk
    THEN Handled(<<AssetGet(instance.asset),
                   EventCreate("DELETE", "Finding", instance.id),
                   CalcRiskGrade(instance.asset)>>, "CalcRiskGradeError")
    ELSE Handled(<<AssetGet(instance.asset),
                   EventCreate("DELETE", "Finding", instance.id),
                   CalcRiskGrade(instance.asset)>>, "ok")

finding_delete_log(instance, calcOk) ==
    IF instance.asset \notin assets
    THEN Handled(<<AssetGet(instance.asset)>>, "DoesNotExist")
    ELSE IF ~calcOk
    THEN Handled(<<AssetGet(instance.asset), CalcRiskGrade(instance.asset)>>,
                 "CalcRiskGradeError")
    ELSE Handled(<<AssetGet(instance.asset), CalcRiskGrade(instance.asset),
                   EventCreate("DELETE", "Finding", instance.id)>>, "ok")

\* ------------------------------------------------------------- operations
NoGiven == [adding |-> FALSE, asset |-> 0, created_at |-> 0, updated_at |-> 0]

Given(inst) ==
    [adding |-> inst.adding, asset |-> inst.asset, created_at |-> inst.created_at,
     updated_at |-> inst.updated_at]

\* what the last operation did: the caller's operation, the entity, whether
\* the save inserted, how it ended, what it returned, the calls it made, and
\* the asset and timestamps of the instance as it was handed to the operation
Done(op, kind, id, created, outcome, trace, given) ==
    [op |-> op, kind |-> kind, id |-> id, created |-> created, outcome |-> outcome,
     count |-> 0, trace |-> trace, order |-> <<>>, given |-> given]

\* the caller's name for a save: a create of a new instance, else an update
SaveOp(inst) == IF inst.adding THEN "create" ELSE "update"

\* Model.save() of a RawFinding instance: RawFinding.save, then the table
\* write (UPDATE of the row with this primary key, INSERT when there is
\* none), then the post_save receiver.  The foreign key to Asset is checked
\* by the table write.
SaveRawFinding(inst) ==
    IF StrRaises(inst.asset_name) \/ StrRaises(inst.title)
    THEN /\ result' = Done(SaveOp(inst), "RawFinding", inst.id, FALSE,
                           "UnicodeEncodeError", <<>>, Given(inst))
         /\ held' = Held("RawFinding", inst)
         /\ UNCHANGED <<rawFindings, findings, lastId>>
    ELSE
      LET self == RawFinding_save(inst)
          updated == self.id \in DOMAIN rawFindings
          pk == IF self.id # 0 THEN self.id ELSE lastId.RawFinding + 1
          saved == [self EXCEPT !.id = pk, !.adding = FALSE]
          h == rawfinding_create_update_log(~updated, saved)
      IN IF self.asset \notin assets
         THEN /\ result' = Done(SaveOp(inst), "RawFinding", inst.id, FALSE, "IntegrityError",
                                <<Db(IF updated THEN "UPDATE" ELSE "INSERT", "RawFinding", inst.id)>>,
                                Given(inst))
              /\ held' = Held("RawFinding", self)
              /\ UNCHANGED <<rawFindings, findings, lastId>>
         ELSE /\ pk \in Ids
              /\ rawFindings' = [i \in DOMAIN rawFindings \cup {pk} |->
                                    IF i = pk THEN saved ELSE rawFindings[i]]
              /\ lastId' = IF self.id = 0 THEN [lastId EXCEPT !.RawFinding = pk] ELSE lastId
              /\ held' = Held("RawFinding", saved)
              /\ result' = Done(SaveOp(inst), "RawFinding", pk, ~updated, h.outcome,
                                <<Db(IF updated THEN "UPDATE" ELSE "INSERT", "RawFinding", pk)>>
                                    \o h.trace, Given(inst))
              /\ UNCHANGED findings

SaveFinding_RollbackOnReceiverError(inst, calcOk) ==
    LET self == Finding_save(inst)
        updated == self.id \in DOMAIN findings
        pk == IF self.id # 0 THEN self.id ELSE lastId.Finding + 1
        saved == [self EXCEPT !.id = pk, !.adding = FALSE]
        h == finding_create_update_log(~updated, saved, calcOk)
    IN /\ pk \in Ids
       /\ findings' = IF h.outcome = "ok"
                      THEN [i \in DOMAIN findings \cup {pk} |->
                               IF i = pk THEN saved ELSE findings[i]]
                      ELSE findings
       /\ lastId' = IF self.id = 0 THEN [lastId EXCEPT !.Finding = pk] ELSE lastId
       /\ held' = Held("Finding", saved)
       /\ result' = Done(SaveOp(inst), "Finding", pk, ~updated, h.outcome,
                         <<Db(IF updated THEN "UPDATE" ELSE "INSERT", "Finding", pk)>>
                             \o h.trace, Given(inst))
       /\ UNCHANGED rawFindings

\* Model.save() of a Finding instance; the row is committed before the
\* post_save receiver runs, so a receiver that raises leaves it stored.
SaveFinding(inst, calcOk) ==
    IF StrRaises(inst.asset_name) \/ StrRaises(inst.title)
    THEN /\ result' = Done(SaveOp(inst), "Finding", inst.id, FALSE,
                           "UnicodeEncodeError", <<>>, Given(inst))
         /\ held' = Held("Finding", inst)
         /\ UNCHANGED <<rawFindings, findings, lastId>>
    ELSE
      LET self == Finding_save(inst)
          updated == self.id \in DOMAIN findings
          pk == IF self.id # 0 THEN self.id ELSE lastId.Finding + 1
          saved == [self EXCEPT !.id = pk, !.adding = FALSE]
          h == finding_create_update_log(~updated, saved, calcOk)
          fkOk == /\ self.asset \in assets
                  /\ self.raw_finding = 0 \/ self.raw_finding \in DOMAIN rawFindings
      IN IF ~fkOk
         THEN /\ result' = Done(SaveOp(inst), "Finding", inst.id, FALSE, "IntegrityError",
                                <<Db(IF updated THEN "UPDATE" ELSE "INSERT", "Finding", inst.id)>>,
                                Given(inst))
              /\ held' = Held("Finding", self)
              /\ UNCHANGED <<rawFindings, findings, lastId>>
         ELSE /\ pk \in Ids
              /\ findings' = [i \in DOMAIN findings \cup {pk} |->
                                 IF i = pk THEN saved ELSE findings[i]]
              /\ lastId' = IF self.id = 0 THEN [lastId EXCEPT !.Finding = pk] ELSE lastId
              /\ held' = Held("Finding", saved)
              /\ result' = Done(SaveOp(inst), "Finding", pk, ~updated, h.outcome,
                                <<Db(IF updated THEN "UPDATE" ELSE "INSERT", "Finding", pk)>>
                                    \o h.trace, Given(inst))
              /\ UNCHANGED rawFindings

\* a profile is what a caller sets on an instance before saving it
CreateRawFinding(asset, p, created_at, updated_at) ==
    /\ SaveRawFinding(NewRawFinding(asset, p.asset_name, p.title, p.severity,
                                    p.severity_num, created_at, updated_at))
    /\ UNCHANGED <<probe, py, workers, grades, now, assets, rules>>

CreateFinding(raw_finding, asset, p, created_at, updated_at, calcOk) ==
    /\ SaveFinding(NewFinding(raw_finding, asset, p.asset_name, p.title, p.severity,
                              p.severity_num, created_at, updated_at), calcOk)
    /\ UNCHANGED <<probe, py, workers, grades, now, assets, rules>>

\* the caller sets the profile's fields on the instance it holds and saves it
UpdateRawFinding(p) ==
    /\ held.kind = "RawFinding"
    /\ SaveRawFinding([held.inst EXCEPT !.asset_name = p.asset_name,
                          !.title = p.title, !.severity = p.severity,
                          !.severity_num = p.severity_num, !.hash = BogusHash])
    /\ UNCHANGED <<probe, py, workers, grades, now, assets, rules>>

UpdateFinding(p, calcOk) ==
    /\ held.kind = "Finding"
    /\ SaveFinding([held.inst EXCEPT !.asset_name = p.asset_name,
                       !.title = p.title, !.severity = p.severity,
                       !.severity_num = p.severity_num, !.hash = BogusHash], calcOk)
    /\ UNCHANGED <<probe, py, workers, grades, now, assets, rules>>

\* RawFinding.objects.get(id=...) / Finding.objects.get(id=...)
GetRawFinding(id) ==
    /\ id \in DOMAIN rawFindings
    /\ held' = Held("RawFinding", rawFindings[id])
    /\ result' = Done("get", "RawFinding", id, FALSE, "ok", <<>>, NoGiven)
    /\ UNCHANGED <<probe, py, workers, grades, now, assets, rawFindings, findings, lastId, rules>>

GetFinding(id) ==
    /\ id \in DOMAIN findings
    /\ held' = Held("Finding", findings[id])
    /\ result' = Done("get", "Finding", id, FALSE, "ok", <<>>, NoGiven)
    /\ UNCHANGED <<probe, py, workers, grades, now, assets, rawFindings, findings, lastId, rules>>

\* timezone.now() advances
Tick ==
    /\ now < MaxTime
    /\ now' = now + 1
    /\ result' = Done("tick", "none", 0, FALSE, "ok", <<>>, NoGiven)
    /\ UNCHANGED <<probe, py, workers, grades, assets, rawFindings, findings, lastId, held, rules>>

\* the elements of a set of numbers in ascending order
RECURSIVE Ascending(_)
Ascending(S) ==
    IF S = {} THEN <<>>
    ELSE LET m == CHOOSE x \in S : \A y \in S : x <= y
         IN <<m>> \o Ascending(S \ {m})

RECURSIVE Flatten(_)
Flatten(ss) == IF ss = <<>> THEN <<>> ELSE Head(ss) \o Flatten(Tail(ss))

Without(table, gone) == [i \in DOMAIN table \ gone |-> table[i]]

SetNull_Cascade(table, raws) ==
    [i \in {j \in DOMAIN table : table[j].raw_finding \notin raws} |-> table[i]]

\* models.SET_NULL on Finding.raw_finding
SetNull(table, raws) ==
    [i \in DOMAIN table |->
        IF table[i].raw_finding \in raws THEN [table[i] EXCEPT !.raw_finding = 0]
        ELSE table[i]]

Referring(table, raws) == {i \in DOMAIN table : table[i].raw_finding \in raws}

\* RawFinding.__str__ reads self.asset.value: the related asset is the one
\* the instance has cached (fetched), else it is looked up by asset_id.
RawFinding_str_raises(instance, fetched) == ~fetched /\ instance.asset \notin assets

\* instance.delete() of a RawFinding: the rows of Finding that refer to it
\* are set to NULL by a table update (no save(), no signal), the row is
\* deleted, then the post_delete receiver runs, all in one transaction: the
\* receiver formats the instance for the event's message, and when that
\* raises the deletion is rolled back.  fetched: whether the caller's
\* instance has its asset cached.
DeleteRawFinding(fetched) ==
    /\ held.kind = "RawFinding"
    /\ held.inst.id # 0
    /\ fetched \/ held.inst.asset \notin assets
    /\ LET id == held.inst.id
           h == IF RawFinding_str_raises(held.inst, fetched)
                THEN Handled(<<>>, "DoesNotExist")
                ELSE rawfinding_delete_log(held.inst)
           nulled == Ascending(Referring(findings, {id}))
           trace == [k \in 1..Len(nulled) |-> Db("SET_NULL", "Finding", nulled[k])]
                        \o <<Db("DELETE", "RawFinding", id)>> \o h.trace
       IN IF h.outcome = "ok"
          THEN /\ findings' = SetNull(findings, {id})
               /\ rawFindings' = Without(rawFindings, {id})
               /\ held' = NoHeld
               /\ result' = Done("delete", "RawFinding", id, FALSE, "ok", trace,
                                 Given(held.inst))
          ELSE /\ result' = Done("delete", "RawFinding", id, FALSE, h.outcome,
                                 trace \o <<Db("ROLLBACK", "RawFinding", id)>>,
                                 Given(held.inst))
               /\ UNCHANGED <<findings, rawFindings, held>>
    /\ UNCHANGED <<probe, py, workers, grades, now, assets, lastId, rules>>

DeleteFinding_NoRollback(calcOk) ==
    /\ held.kind = "Finding"
    /\ held.inst.id # 0
    /\ LET id == held.inst.id
           h == finding_delete_log(held.inst, calcOk)
       IN /\ findings' = Without(findings, {id})
          /\ held' = NoHeld
          /\ result' = Done("delete", "Finding", id, FALSE, h.outcome,
                            <<Db("DELETE", "Finding", id)>> \o h.trace, Given(held.inst))
    /\ UNCHANGED <<probe, py, workers, grades, now, assets, rawFindings, lastId, rules>>

\* instance.delete() of a Finding: the row is deleted and the post_delete
\* receiver runs inside the deletion's transaction, so a receiver that
\* raises rolls the deletion back.
DeleteFinding(calcOk) ==
    /\ held.kind = "Finding"
    /\ held.inst.id # 0
    /\ LET id == held.inst.id
           h == finding_delete_log(held.inst, calcOk)
       IN IF h.outcome = "ok"
          THEN /\ findings' = Without(findings, {id})
               /\ held' = NoHeld
               /\ result' = Done("delete", "Finding", id, FALSE, "ok",
                                 <<Db("DELETE", "Finding", id)>> \o h.trace, Given(held.inst))
          ELSE /\ result' = Done("delete", "Finding", id, FALSE, h.outcome,
                                 <<Db("DELETE", "Finding", id)>> \o h.trace
                                     \o <<Db("ROLLBACK", "Finding", id)>>, Given(held.inst))
               /\ UNCHANGED <<findings, held>>
    /\ UNCHANGED <<probe, py, workers, grades, now, assets, rawFindings, lastId, rules>>

\* The Asset collaborator deletes an asset: on_delete=CASCADE deletes the
\* raw findings and the findings of the asset while the asset row is still
\* there; the rows of one table go in one statement, then the post_delete
\* receiver runs for each of them by ascending id; the asset goes last.
AssetRemoved(a, calcOk) ==
    /\ a \in assets
    /\ LET raws == {i \in DOMAIN rawFindings : rawFindings[i].asset = a}
           fs == {i \in DOMAIN findings : findings[i].asset = a}
           rs == Ascending(raws)
           fq == Ascending(fs)
           nulled == Ascending(Referring(findings, raws) \ fs)
           rawTrace == [k \in 1..Len(rs) |-> Db("DELETE", "RawFinding", rs[k])]
                          \o Flatten([k \in 1..Len(rs) |->
                                 rawfinding_delete_log(rawFindings[rs[k]]).trace])
           failed == fs # {} /\ ~calcOk
           findingTrace ==
               [k \in 1..Len(fq) |-> Db("DELETE", "Finding", fq[k])]
                   \o (IF failed
                       THEN finding_delete_log(findings[fq[1]], calcOk).trace
                       ELSE Flatten([k \in 1..Len(fq) |->
                                finding_delete_log(findings[fq[k]], calcOk).trace]))
           trace == [k \in 1..Len(nulled) |-> Db("SET_NULL", "Finding", nulled[k])]
                        \o rawTrace \o findingTrace
       IN IF failed
          THEN /\ result' = Done("delete", "Asset", a, FALSE, "CalcRiskGradeError",
                                 trace \o <<Db("ROLLBACK", "Asset", a)>>, NoGiven)
               /\ UNCHANGED <<assets, rawFindings, findings>>
          ELSE /\ result' = Done("delete", "Asset", a, FALSE, "ok",
                                 trace \o <<Db("DELETE", "Asset", a)>>, NoGiven)
               /\ assets' = assets \ {a}
               /\ rawFindings' = Without(rawFindings, raws)
               /\ findings' = Without(SetNull(findings, raws), fs)
    /\ UNCHANGED <<probe, py, workers, grades, now, lastId, held, rules>>

\* ------------------------------------------------------- specifications
Profile(asset_name, title, severity, severity_num) ==
    [asset_name |-> asset_name, title |-> title, severity |-> severity,
     severity_num |-> severity_num]

EmptyTable == [i \in {} |-> NoInst]

NoProbe == [args |-> <<>>, out |-> <<>>]

NoResult == Done("none", "none", 0, FALSE, "ok", <<>>, NoGiven)

\* The lifecycle's inputs are ASCII text, on which the two interpreters
\* agree; they differ on non-ASCII text (InitSave) and in
\* RawFinding.evaluate_alert_rules (InitRules).
Init ==
    /\ py = 3
    /\ now = 0
    /\ assets = Assets
    /\ rawFindings = EmptyTable
    /\ findings = EmptyTable
    /\ lastId = [RawFinding |-> 0, Finding |-> 0]
    /\ held = NoHeld
    /\ rules = <<>>
    /\ result = NoResult
    /\ probe = NoProbe
    /\ workers = <<>>
    /\ grades = <<>>

\* the lifecycle of raw findings, findings and assets
LifeProfiles ==
    {Profile(<<"a">>, <<"b">>, "low", 1), Profile(<<"a">>, <<"a">>, "critical", 1)}

\* raw findings keep one set of field values over their lifecycle (saves
\* that change them are those of NextSave)
RawLifeProfiles == {Profile(<<"a">>, <<"b">>, "low", 1)}

Next ==
    \/ \E a \in Assets, p \in RawLifeProfiles : CreateRawFinding(a, p, now, now)
    \/ \E r \in {0} \cup DOMAIN rawFindings, a \in Assets, p \in LifeProfiles :
          CreateFinding(r, a, p, now, now, TRUE)
    \/ \E p \in RawLifeProfiles : UpdateRawFinding(p)
    \/ \E p \in LifeProfiles, ok \in BOOLEAN : UpdateFinding(p, ok)
    \/ \E id \in Ids : GetRawFinding(id)
    \/ \E id \in Ids : GetFinding(id)
    \/ \E fetched \in BOOLEAN : DeleteRawFinding(fetched)
    \/ \E ok \in BOOLEAN : DeleteFinding(ok)
    \/ \E a \in Assets, ok \in BOOLEAN : AssetRemoved(a, ok)

Spec == Init /\ [][Next]_vars

\* ---------------------------------------------------------------- saves
\* creates and updates of both entities over every severity label, over
\* names and titles that share their concatenation, and over non-ASCII text
SaveProfiles ==
    {Profile(<<"a">>, <<"b">>, "info", 7),
     Profile(<<"a", "b">>, <<>>, "low", 1),
     Profile(<<"a">>, <<"a">>, "medium", 1),
     Profile(<<"a">>, <<"b">>, "high", 0),
     Profile(<<"b">>, <<"a">>, "critical", 4),
     Profile(<<"a">>, <<"U+00E9">>, "unknown", 1)}

InitSave ==
    /\ py \in Pythons
    /\ now = 0
    /\ assets = Assets
    /\ rawFindings = EmptyTable
    /\ findings = EmptyTable
    /\ lastId = [RawFinding |-> 0, Finding |-> 0]
    /\ held = NoHeld
    /\ rules = <<>>
    /\ result = NoResult
    /\ probe = NoProbe
    /\ workers = <<>>
    /\ grades = <<>>

NextSave ==
    \/ \E p \in SaveProfiles : CreateRawFinding(1, p, now, now)
    \/ \E p \in SaveProfiles : CreateFinding(0, 1, p, now, now, TRUE)
    \/ \E p \in SaveProfiles : UpdateRawFinding(p)
    \/ \E p \in SaveProfiles : UpdateFinding(p, TRUE)
    \/ \E id \in Ids : GetRawFinding(id)
    \/ \E id \in Ids : GetFinding(id)

SpecSave == InitSave /\ [][NextSave]_vars

\* ------------------------------------------------------------ timestamps
\* saves as the clock advances; an instance is built at or before the time
\* it is first saved
TimeProfiles == {Profile(<<"a">>, <<"b">>, "low", 1)}

NextTime ==
    \/ \E p \in TimeProfiles, t \in 0..now : CreateRawFinding(1, p, t, t)
    \/ \E p \in TimeProfiles, t \in 0..now : CreateFinding(0, 1, p, t, t, TRUE)
    \/ \E p \in TimeProfiles : UpdateRawFinding(p)
    \/ \E p \in TimeProfiles : UpdateFinding(p, TRUE)
    \/ \E id \in Ids : GetRawFinding(id)
    \/ \E id \in Ids : GetFinding(id)
    \/ Tick

SpecTime == Init /\ [][NextTime]_vars

\* ------------------------------------------------ the risk-grade cascade
\* updates and deletes of a finding as the clock advances, with a
\* calc_risk_grade that returns or raises
NextCascade ==
    \/ \E a \in Assets, p \in LifeProfiles : CreateFinding(0, a, p, now, now, TRUE)
    \/ \E p \in LifeProfiles, ok \in BOOLEAN : UpdateFinding(p, ok)
    \/ \E id \in Ids : GetFinding(id)
    \/ \E ok \in BOOLEAN : DeleteFinding(ok)
    \/ Tick

SpecCascade == Init /\ [][NextCascade]_vars

\* ------------------------------------------------ callers side by side
\* Each worker is a caller on a database connection of its own, in
\* autocommit mode: it loads a finding, then updates or deletes it.  The
\* table write of save() is committed when the post_save receiver runs.
\* delete() runs its statement and the post_delete receiver in one
\* transaction: until the worker returns, the row is gone for the worker
\* and still there for every other connection, and a write of that row by
\* another connection waits.  The receivers' calls are made one at a time.
Workers == 1..MaxWorkers

ConcurrentIds == {1, 2}

IdleWorker == [pc |-> "idle", op |-> "none", inst |-> NoInst, todo |-> <<>>,
               created |-> FALSE]

\* what calc_risk_grade() reads: the asset's findings with their severities
GradeOf(table, a) ==
    [i \in {j \in DOMAIN table : table[j].asset = a} |-> table[i].severity]

\* the findings table as the worker's connection sees it
VisibleTo(w) ==
    IF workers[w].pc = "receiver" /\ workers[w].op = "delete"
    THEN Without(findings, {workers[w].inst.id})
    ELSE findings

\* another connection holds the row in a delete that is not committed
RowLocked(w, id) ==
    \E v \in Workers \ {w} :
       workers[v].pc = "receiver" /\ workers[v].op = "delete" /\ workers[v].inst.id = id

\* Finding.objects.get(id=...)
WorkerGet(w, id) ==
    /\ workers[w].pc = "idle"
    /\ id \in DOMAIN findings
    /\ workers' = [workers EXCEPT ![w] = [@ EXCEPT !.pc = "loaded", !.inst = findings[id]]]
    /\ UNCHANGED <<py, now, assets, rawFindings, findings, lastId, held, rules, result,
                   probe, grades>>

\* instance.save() up to the table write (Finding.save, then UPDATE, else
\* INSERT), committed; the post_save receiver's calls are still to make
WorkerSave(w, p) ==
    /\ workers[w].pc = "loaded"
    /\ ~RowLocked(w, workers[w].inst.id)
    /\ LET self == Finding_save([workers[w].inst EXCEPT
                       !.asset_name = p.asset_name, !.title = p.title,
                       !.severity = p.severity, !.severity_num = p.severity_num])
           updated == self.id \in DOMAIN findings
       IN /\ findings' = [i \in DOMAIN findings \cup {self.id} |->
                             IF i = self.id THEN self ELSE findings[i]]
          /\ workers' = [workers EXCEPT ![w] =
                [pc |-> "receiver", op |-> "update", inst |-> self,
                 todo |-> finding_create_update_log(~updated, self, TRUE).trace,
                 created |-> ~updated]]
    /\ UNCHANGED <<py, now, assets, rawFindings, lastId, held, rules, result, probe, grades>>

\* instance.delete() up to the DELETE statement, not committed; the
\* post_delete receiver's calls are still to make
WorkerDelete(w) ==
    /\ workers[w].pc = "loaded"
    /\ ~RowLocked(w, workers[w].inst.id)
    /\ workers' = [workers EXCEPT ![w] =
          [pc |-> "receiver", op |-> "delete", inst |-> workers[w].inst,
           todo |-> finding_delete_log(workers[w].inst, TRUE).trace,
           created |-> FALSE]]
    /\ UNCHANGED <<py, now, assets, rawFindings, findings, lastId, held, rules, result,
                   probe, grades>>

\* the receiver's next call; calc_risk_grade() is one step that reads the
\* findings its connection sees and sets the asset's grade from them
WorkerCall(w) ==
    /\ workers[w].pc = "receiver"
    /\ workers[w].todo # <<>>
    /\ LET c == Head(workers[w].todo)
       IN grades' = IF c.call = "calc_risk_grade"
                    THEN [grades EXCEPT ![c.id] = GradeOf(VisibleTo(w), c.id)]
                    ELSE grades
    /\ workers' = [workers EXCEPT ![w] = [@ EXCEPT !.todo = Tail(@)]]
    /\ UNCHANGED <<py, now, assets, rawFindings, findings, lastId, held, rules, result, probe>>

\* the receiver returned: save() returns; delete() commits and returns
WorkerReturn(w) ==
    /\ workers[w].pc = "receiver"
    /\ workers[w].todo = <<>>
    /\ findings' = IF workers[w].op = "delete"
                   THEN Without(findings, {workers[w].inst.id})
                   ELSE findings
    /\ workers' = [workers EXCEPT ![w] = [@ EXCEPT !.pc = "done"]]
    /\ UNCHANGED <<py, now, assets, rawFindings, lastId, held, rules, result, probe, grades>>

ConcurrentProfile == Profile(<<"a">>, <<"b">>, "high", 1)

\* two findings of asset 1, of severity low and critical, and the grades
\* that a calc_risk_grade() read from them
InitConcurrent ==
    /\ py = 3
    /\ now = 0
    /\ assets = Assets
    /\ rawFindings = EmptyTable
    /\ findings = [i \in ConcurrentIds |->
                      [Finding_save(NewFinding(0, 1, <<"a">>, <<"b">>,
                                               IF i = 1 THEN "low" ELSE "critical", 1, 0, 0))
                         EXCEPT !.id = i, !.adding = FALSE]]
    /\ lastId = [RawFinding |-> 0, Finding |-> 2]
    /\ held = NoHeld
    /\ rules = <<>>
    /\ result = NoResult
    /\ probe = NoProbe
    /\ workers = [w \in Workers |-> IdleWorker]
    /\ grades = [a \in Assets |-> GradeOf(findings, a)]

NextConcurrent ==
    \/ \E w \in Workers, id \in ConcurrentIds : WorkerGet(w, id)
    \/ \E w \in Workers : WorkerSave(w, ConcurrentProfile)
    \/ \E w \in Workers : WorkerDelete(w)
    \/ \E w \in Workers : WorkerCall(w)
    \/ \E w \in Workers : WorkerReturn(w)

SpecConcurrent == InitConcurrent /\ [][NextConcurrent]_vars

\* ------------------------------------------------------------ the hash
\* The hash two instances get from save(): a RawFinding with the first
\* name and title, a Finding with the second.
InitHash ==
    /\ py \in Pythons
    /\ now = 0
    /\ assets = Assets
    /\ rawFindings = EmptyTable
    /\ findings = EmptyTable
    /\ lastId = [RawFinding |-> 0, Finding |-> 0]
    /\ held = NoHeld
    /\ rules = <<>>
    /\ result = NoResult
    /\ workers = <<>>
    /\ grades = <<>>
    /\ \E a1 \in StringsUpTo(MaxLen), t1 \in StringsUpTo(MaxLen),
          a2 \in StringsUpTo(MaxLen), t2 \in StringsUpTo(MaxLen) :
          probe = [args |-> <<a1, t1, a2, t2>>, out |-> <<>>]

HashBoth ==
    /\ probe.out = <<>>
    /\ LET a == probe.args
       IN IF \E k \in 1..4 : StrRaises(a[k])
          THEN probe' = [probe EXCEPT !.out = <<"UnicodeEncodeError">>]
          ELSE probe' = [probe EXCEPT !.out =
                  <<RawFinding_save(NewRawFinding(1, a[1], a[2], "info", 1, 0, 0)).hash,
                    Finding_save(NewFinding(0, 1, a[3], a[4], "info", 1, 0, 0)).hash>>]
    /\ UNCHANGED <<py, workers, grades, now, assets, rawFindings, findings, lastId, held, rules, result>>

NextHash == HashBoth

SpecHash == InitHash /\ [][NextHash]_vars

\* ------------------------------------------------------- severity_ordering
\* text order: byte order of the UTF-8 encoding
RECURSIVE BytesLess(_, _)
BytesLess(x, y) ==
    IF y = <<>> THEN FALSE
    ELSE IF x = <<>> THEN TRUE
    ELSE IF Head(x) # Head(y) THEN Head(x) < Head(y)
    ELSE BytesLess(Tail(x), Tail(y))

TextLess(s, t) == BytesLess(Encode(s), Encode(t))

severity_order_FromRank(row) == row.severity_num

\* the Case annotation of the query
severity_order(row) ==
    IF row.severity = "info" THEN 0
    ELSE IF row.severity = "low" THEN 1
    ELSE IF row.severity = "medium" THEN 2
    ELSE IF row.severity = "high" THEN 3
    ELSE IF row.severity = "critical" THEN 4
    ELSE 0

\* order_by('-severity_order', 'asset_name', 'title'): r comes before s
Before(r, s) ==
    \/ severity_order(r) > severity_order(s)
    \/ /\ severity_order(r) = severity_order(s)
       /\ \/ TextLess(r.asset_name, s.asset_name)
          \/ r.asset_name = s.asset_name /\ TextLess(r.title, s.title)

\* the orders the query may return the rows of a table in: rows with equal
\* keys come in any order
RECURSIVE Orderings(_, _)
Orderings(table, ids) ==
    IF ids = {} THEN {<<>>}
    ELSE UNION {{<<m>> \o rest : rest \in Orderings(table, ids \ {m})} :
                   m \in {i \in ids : \A j \in ids : ~Before(table[j], table[i])}}

\* Finding.objects.severity_ordering()
SeverityOrdering ==
    /\ result.op # "severity_ordering"
    /\ \E o \in Orderings(findings, DOMAIN findings) :
          result' = [Done("severity_ordering", "Finding", 0, FALSE, "ok", <<>>, NoGiven)
                        EXCEPT !.order = o]
    /\ UNCHANGED <<probe, py, workers, grades, now, assets, rawFindings, findings, lastId, held, rules>>

OrderProfiles ==
    {Profile(<<"a">>, <<"b">>, l, 1) : l \in SeverityLabels}
        \cup {Profile(<<"b">>, <<"a">>, "high", 1), Profile(<<"a">>, <<"a">>, "high", 1)}

\* a table of findings, each stored by a save
InitOrder ==
    /\ py \in Pythons
    /\ now = 0
    /\ assets = Assets
    /\ rawFindings = EmptyTable
    /\ \E n \in 0..MaxRows : \E ps \in [1..n -> OrderProfiles] :
          /\ findings = [i \in 1..n |->
                [Finding_save(NewFinding(0, 1, ps[i].asset_name, ps[i].title,
                                         ps[i].severity, ps[i].severity_num, 0, 0))
                    EXCEPT !.id = i, !.adding = FALSE]]
          /\ lastId = [RawFinding |-> 0, Finding |-> n]
    /\ held = NoHeld
    /\ rules = <<>>
    /\ result = NoResult
    /\ probe = NoProbe
    /\ workers = <<>>
    /\ grades = <<>>

NextOrder == SeverityOrdering

SpecOrder == InitOrder /\ [][NextOrder]_vars

\* ---------------------------------------------------- evaluate_alert_rules
\* a row of the Rule collaborator; condition is the mapping's entries in
\* iteration order, each <<key, value>>
RuleRow(enabled, scope, trigger, scope_attr, condition) ==
    [enabled |-> enabled, scope |-> scope, trigger |-> trigger,
     scope_attr |-> scope_attr, condition |-> condition]

\* the field lookups of the entities that the rules of the model name
IsField(name) == name = "severity"

FieldOf(row, name) == row.severity

\* Rule.objects.filter(enabled=True, scope='finding'[, trigger=trigger]):
\* the positions of the selected rules, in the order the query returns them
Selected(trigger) ==
    SelectSeq([i \in 1..Len(rules) |-> i],
              LAMBDA i : /\ rules[i].enabled
                         /\ rules[i].scope = "finding"
                         /\ trigger = "all" \/ rules[i].trigger = trigger)

Finding_rule_matches_SkipEmpty(self, rule) ==
    IF rule.condition = <<>> THEN "nomatch"
    ELSE LET name == rule.scope_attr \o rule.condition[1][1]
             value == rule.condition[1][2]
         IN IF ~IsField(name) THEN "FieldError"
            ELSE IF \E i \in DOMAIN findings :
                        i = self.id /\ FieldOf(findings[i], name) = value
            THEN "match"
            ELSE "nomatch"

\* the lookup built for one rule and the store query with it: next(iter())
\* of an empty mapping raises StopIteration, an unknown lookup name raises
\* FieldError
Finding_rule_matches(self, rule) ==
    IF rule.condition = <<>> THEN "StopIteration"
    ELSE LET name == rule.scope_attr \o rule.condition[1][1]
             value == rule.condition[1][2]
         IN IF ~IsField(name) THEN "FieldError"
            ELSE IF \E i \in DOMAIN findings :
                        i = self.id /\ FieldOf(findings[i], name) = value
            THEN "match"
            ELSE "nomatch"

\* as for Finding, with the value taken by rule.condition.itervalues(),
\* which a Python 3 mapping does not have (AttributeError); the key
\* expression is evaluated before it
RawFinding_rule_matches(self, rule) ==
    IF rule.condition = <<>> THEN "StopIteration"
    ELSE IF py = 3 THEN "AttributeError"
    ELSE LET name == rule.scope_attr \o rule.condition[1][1]
             value == rule.condition[1][2]
         IN IF ~IsField(name) THEN "FieldError"
            ELSE IF \E i \in DOMAIN rawFindings :
                        i = self.id /\ FieldOf(rawFindings[i], name) = value
            THEN "match"
            ELSE "nomatch"

Evaluated(outcome, count, trace) == [outcome |-> outcome, count |-> count, trace |-> trace]

RECURSIVE EvaluateLoop_Isolated(_, _, _, _, _, _)
EvaluateLoop_Isolated(kind, self, todo, failing, nb_matches, trace) ==
    IF todo = <<>> THEN Evaluated("ok", nb_matches, trace)
    ELSE LET i == Head(todo)
             m == IF kind = "Finding" THEN Finding_rule_matches(self, rules[i])
                  ELSE RawFinding_rule_matches(self, rules[i])
         IN IF m = "match" /\ self.asset \in assets /\ i \notin failing
            THEN EvaluateLoop_Isolated(kind, self, Tail(todo), failing, nb_matches + 1,
                                       Append(trace, Notify(i)))
            ELSE EvaluateLoop_Isolated(kind, self, Tail(todo), failing, nb_matches, trace)

\* for rule in rules: ...; return nb_matches.  failing: the rules whose
\* notify() raises.  An exception leaves the loop and the method.
RECURSIVE EvaluateLoop(_, _, _, _, _, _)
EvaluateLoop(kind, self, todo, failing, nb_matches, trace) ==
    IF todo = <<>> THEN Evaluated("ok", nb_matches, trace)
    ELSE LET i == Head(todo)
             m == IF kind = "Finding" THEN Finding_rule_matches(self, rules[i])
                  ELSE RawFinding_rule_matches(self, rules[i])
         IN IF m \notin {"match", "nomatch"} THEN Evaluated(m, nb_matches, trace)
            ELSE IF m = "nomatch"
            THEN EvaluateLoop(kind, self, Tail(todo), failing, nb_matches, trace)
            ELSE IF self.asset \notin assets
            THEN Evaluated("DoesNotExist", nb_matches + 1, trace)
            ELSE IF i \in failing
            THEN Evaluated("NotifyError", nb_matches + 1, Append(trace, Notify(i)))
            ELSE EvaluateLoop(kind, self, Tail(todo), failing, nb_matches + 1,
                              Append(trace, Notify(i)))

RawFinding_evaluate_alert_rules(self, trigger, failing) ==
    EvaluateLoop("RawFinding", self, Selected(trigger), failing, 0, <<>>)

Finding_evaluate_alert_rules(self, trigger, failing) ==
    EvaluateLoop("Finding", self, Selected(trigger), failing, 0, <<>>)

\* instance.evaluate_alert_rules(trigger) on the instance held; probe keeps
\* the arguments and, when the method returns, the value returned
EvaluateAlertRules(trigger, failing) ==
    /\ held.kind \in {"RawFinding", "Finding"}
    /\ LET r == IF held.kind = "Finding"
                THEN Finding_evaluate_alert_rules(held.inst, trigger, failing)
                ELSE RawFinding_evaluate_alert_rules(held.inst, trigger, failing)
       IN /\ result' = [Done("evaluate_alert_rules", held.kind, held.inst.id, FALSE,
                             r.outcome, r.trace, Given(held.inst))
                           EXCEPT !.count = IF r.outcome = "ok" THEN r.count ELSE 0]
          /\ probe' = [args |-> <<trigger, failing>>,
                       out |-> IF r.outcome = "ok" THEN <<r.count>> ELSE <<>>]
    /\ UNCHANGED <<py, workers, grades, now, assets, rawFindings, findings, lastId, held, rules>>

\* the caller assigns a field of the instance it holds and does not save
SetHeldSeverity(label) ==
    /\ held.kind \in {"RawFinding", "Finding"}
    /\ held.inst.severity # label
    /\ held' = [held EXCEPT !.inst.severity = label]
    /\ result' = Done("assign", held.kind, held.inst.id, FALSE, "ok", <<>>, NoGiven)
    /\ UNCHANGED <<probe, py, workers, grades, now, assets, rawFindings, findings, lastId, rules>>

Triggers == {"all", "auto", "manual"}

RuleRows ==
    {RuleRow(TRUE, "finding", "auto", "severity", << <<"", "high">> >>),
     RuleRow(TRUE, "finding", "manual", "sever", << <<"ity", "high">> >>),
     RuleRow(TRUE, "finding", "auto", "severity", << <<"", "low">> >>),
     RuleRow(FALSE, "finding", "auto", "severity", << <<"", "high">> >>),
     RuleRow(TRUE, "asset", "auto", "severity", << <<"", "high">> >>),
     RuleRow(TRUE, "finding", "auto", "severity", <<>>),
     RuleRow(TRUE, "finding", "manual", "sever", << <<"", "high">> >>),
     RuleRow(TRUE, "finding", "manual", "severity", << <<"", "high">>, <<"ity", "low">> >>)}

\* one stored raw finding and one stored finding of severity high, and the
\* rules of the Rule collaborator
InitRules ==
    /\ py \in Pythons
    /\ now = 0
    /\ assets = Assets
    /\ rawFindings = [i \in {1} |->
          [RawFinding_save(NewRawFinding(1, <<"a">>, <<"b">>, "high", 1, 0, 0))
              EXCEPT !.id = 1, !.adding = FALSE]]
    /\ findings = [i \in {1} |->
          [Finding_save(NewFinding(1, 1, <<"a">>, <<"b">>, "high", 1, 0, 0))
              EXCEPT !.id = 1, !.adding = FALSE]]
    /\ lastId = [RawFinding |-> 1, Finding |-> 1]
    /\ held = NoHeld
    /\ \E n \in 0..MaxRules : rules \in [1..n -> RuleRows]
    /\ result = NoResult
    /\ probe = NoProbe
    /\ workers = <<>>
    /\ grades = <<>>

NextRules ==
    \/ \E id \in Ids : GetRawFinding(id)
    \/ \E id \in Ids : GetFinding(id)
    \/ SetHeldSeverity("low")
    \/ \E t \in Triggers, failing \in {{}} \cup {{i} : i \in 1..Len(rules)} :
          EvaluateAlertRules(t, failing)

SpecRules == InitRules /\ [][NextRules]_vars

\* ================================================================ claims
CallsTo(name) == SelectSeq(result.trace, LAMBDA c : c.call = name)

DbCalls(type, kind) ==
    SelectSeq(result.trace, LAMBDA c : c.call = "db" /\ c.type = type /\ c.kind = kind)

\* the last operation was a save whose table write went through
SaveWrote(kind) ==
    /\ result.kind = kind
    /\ result.op \in {"create", "update"}
    /\ result.outcome \notin {"UnicodeEncodeError", "IntegrityError"}

FindingCreated == SaveWrote("Finding") /\ result.created

FindingUpdated == SaveWrote("Finding") /\ ~result.created

FindingDeleteCalled == result.kind = "Finding" /\ result.op = "delete"

AssetDeleteCalled == result.kind = "Asset" /\ result.op = "delete"

\* C1 as stated: a Finding create makes no call of calc_risk_grade, each
\* Finding update and each Finding delete makes exactly one, on the asset
\* the finding references.
C1_Original ==
    /\ FindingCreated => CallsTo("calc_risk_grade") = <<>>
    /\ FindingUpdated => CallsTo("calc_risk_grade") = <<CalcRiskGrade(result.given.asset)>>
    /\ FindingDeleteCalled => CallsTo("calc_risk_grade") = <<CalcRiskGrade(result.given.asset)>>

\* C1 as amended: a Finding create makes no call of calc_risk_grade, each
\* Finding update makes exactly one, and each Finding delete whose asset
\* reference resolves makes exactly one (also each finding deleted with its
\* asset), always on the asset the finding references.
C1_RiskGradeCalls ==
    /\ FindingCreated => CallsTo("calc_risk_grade") = <<>>
    /\ FindingUpdated => CallsTo("calc_risk_grade") = <<CalcRiskGrade(result.given.asset)>>
    /\ FindingDeleteCalled /\ result.given.asset \in assets
          => CallsTo("calc_risk_grade") = <<CalcRiskGrade(result.given.asset)>>
    /\ AssetDeleteCalled
          => /\ Len(CallsTo("calc_risk_grade")) <= Len(DbCalls("DELETE", "Finding"))
             /\ result.outcome = "ok"
                   => Len(CallsTo("calc_risk_grade")) = Len(DbCalls("DELETE", "Finding"))
             /\ \A k \in 1..Len(CallsTo("calc_risk_grade")) :
                   CallsTo("calc_risk_grade")[k] = CalcRiskGrade(result.id)

\* a finding on asset 2 was deleted and the one call was made on asset 2
C1_Witness ==
    /\ FindingDeleteCalled
    /\ result.outcome = "ok"
    /\ result.given.asset = 2
    /\ CallsTo("calc_risk_grade") = <<CalcRiskGrade(2)>>

\* C9: the delete of a Finding whose asset reference does not resolve ends
\* in DoesNotExist, with no call of calc_risk_grade and no DELETE event.
C9_DanglingDeleteFails ==
    FindingDeleteCalled /\ result.given.asset \notin assets
        => /\ result.outcome = "DoesNotExist"
           /\ CallsTo("calc_risk_grade") = <<>>
           /\ CallsTo("Event.objects.create") = <<>>

C9_Witness ==
    /\ FindingDeleteCalled
    /\ result.given.asset \notin assets
    /\ result.outcome = "DoesNotExist"

\* the rank table of the severity labels
C2_Rank(label) ==
    CASE label = "info" -> 1
      [] label = "low" -> 2
      [] label = "medium" -> 3
      [] label = "high" -> 4
      [] OTHER -> 0

\* C2: every stored RawFinding and Finding, and every instance just saved,
\* has the severity rank the table gives its severity label.
C2_RankFollowsLabel ==
    /\ \A i \in DOMAIN rawFindings :
          rawFindings[i].severity_num = C2_Rank(rawFindings[i].severity)
    /\ \A i \in DOMAIN findings :
          findings[i].severity_num = C2_Rank(findings[i].severity)
    /\ SaveWrote("RawFinding") \/ SaveWrote("Finding")
          => held.inst.severity_num = C2_Rank(held.inst.severity)

\* an update stored the label critical with rank 0
C2_Witness ==
    /\ FindingUpdated
    /\ findings[result.id].severity = "critical"
    /\ findings[result.id].severity_num = 0
    /\ \E i \in DOMAIN rawFindings : rawFindings[i].severity = "high"

\* the digest of the concatenation of the two fields' UTF-8 bytes
C4_Digest(asset_name, title) == [sha1 |-> Encode(asset_name) \o Encode(title)]

C4_HashStored(raws, fs) ==
    /\ \A i \in DOMAIN raws : raws[i].hash = C4_Digest(raws[i].asset_name, raws[i].title)
    /\ \A i \in DOMAIN fs : fs[i].hash = C4_Digest(fs[i].asset_name, fs[i].title)

C4_SameFields(r, s) == r.asset_name = s.asset_name /\ r.title = s.title

C4_Rows(P(_, _)) ==
    /\ \A i \in DOMAIN rawFindings \cap DOMAIN rawFindings' : P(rawFindings[i], rawFindings'[i])
    /\ \A i \in DOMAIN findings \cap DOMAIN findings' : P(findings[i], findings'[i])

C4_Stable(r, s) == C4_SameFields(r, s) => s.hash = r.hash

C4_ChangesWithEither(r, s) == ~C4_SameFields(r, s) => s.hash # r.hash

C4_ChangesWithConcatenation(r, s) ==
    (s.asset_name \o s.title # r.asset_name \o r.title) <=> (s.hash # r.hash)

\* C4 as stated: after every save the stored hash is the digest of the
\* stored asset name and title, it stays when a save leaves both fields
\* unchanged, and it changes when a save changes either field.
C4_Original ==
    [][/\ C4_HashStored(rawFindings', findings')
       /\ C4_Rows(C4_Stable)
       /\ C4_Rows(C4_ChangesWithEither)]_vars

\* C4 as amended: after every save the stored hash is the digest of the
\* stored asset name and title, it stays when a save leaves both fields
\* unchanged, and it changes exactly when a save changes the concatenation
\* of asset name and title.
C4_HashFollowsFields ==
    [][/\ C4_HashStored(rawFindings', findings')
       /\ C4_Rows(C4_Stable)
       /\ C4_Rows(C4_ChangesWithConcatenation)]_vars

\* an update replaced the hash handed in by the digest of name "ab", title ""
C4_Witness ==
    /\ FindingUpdated
    /\ findings[result.id].asset_name = <<"a", "b">>
    /\ findings[result.id].title = <<>>
    /\ findings[result.id].hash = [sha1 |-> <<97, 98>>]

\* the stored row of the entity the last operation saved
C10_Row == IF result.kind = "Finding" THEN findings[result.id] ELSE rawFindings[result.id]

\* C10: a save that wrote leaves created_at as handed in, leaves updated_at
\* as handed in when the instance was new, and sets it to the current time
\* when the instance was already persisted.
C10_UpdatedAtOnUpdateOnly ==
    SaveWrote("RawFinding") \/ SaveWrote("Finding")
        => /\ C10_Row.created_at = result.given.created_at
           /\ result.given.adding => C10_Row.updated_at = result.given.updated_at
           /\ ~result.given.adding => C10_Row.updated_at = now

\* an update at time 2 of a finding built and created at time 1
C10_Witness ==
    /\ FindingUpdated
    /\ ~result.given.adding
    /\ result.given.updated_at = 1
    /\ findings[result.id].created_at = 1
    /\ findings[result.id].updated_at = 2
    /\ now = 2

C5_Hashed == Len(probe.out) = 2

\* C5 as stated: two findings get the same hash only if they have the same
\* asset name and the same title.
C5_Original ==
    C5_Hashed /\ probe.out[1] = probe.out[2]
        => probe.args[1] = probe.args[3] /\ probe.args[2] = probe.args[4]

\* C5 as amended: two findings get the same hash exactly when asset name
\* followed by title is the same text; so with the same asset name only if
\* the same title, and with the same title only if the same asset name.
C5_InjectiveOnConcatenation ==
    C5_Hashed
        => /\ (probe.out[1] = probe.out[2])
                 <=> (probe.args[1] \o probe.args[2] = probe.args[3] \o probe.args[4])
           /\ probe.out[1] = probe.out[2] /\ probe.args[1] = probe.args[3]
                 => probe.args[2] = probe.args[4]
           /\ probe.out[1] = probe.out[2] /\ probe.args[2] = probe.args[4]
                 => probe.args[1] = probe.args[3]

\* a name and an empty title against an empty name and that title
C5_Witness ==
    /\ C5_Hashed
    /\ probe.args = << <<"U+00E9">>, <<>>, <<>>, <<"U+00E9">> >>
    /\ probe.out[1] = probe.out[2]

C3_Ordered == result.op = "severity_ordering"

C3_Row(k) == findings[result.order[k]]

C3_IsPermutation ==
    /\ Len(result.order) = Cardinality(DOMAIN findings)
    /\ {result.order[k] : k \in 1..Len(result.order)} = DOMAIN findings

\* the key of the rank table stored by save()
C3_StoredRankKey(r, s) ==
    \/ r.severity_num > s.severity_num
    \/ /\ r.severity_num = s.severity_num
       /\ \/ TextLess(r.asset_name, s.asset_name)
          \/ r.asset_name = s.asset_name /\ ~TextLess(s.title, r.title)

\* the query's own severity order
C3_QueryOrder(label) ==
    CASE label = "low" -> 1
      [] label = "medium" -> 2
      [] label = "high" -> 3
      [] label = "critical" -> 4
      [] OTHER -> 0

C3_QueryKey(r, s) ==
    \/ C3_QueryOrder(r.severity) > C3_QueryOrder(s.severity)
    \/ /\ C3_QueryOrder(r.severity) = C3_QueryOrder(s.severity)
       /\ \/ TextLess(r.asset_name, s.asset_name)
          \/ r.asset_name = s.asset_name /\ ~TextLess(s.title, r.title)

\* the four findings low, critical, info, high with one name and one title
C3_Example ==
    /\ DOMAIN findings = 1..4
    /\ <<findings[1].severity, findings[2].severity, findings[3].severity,
         findings[4].severity>> = <<"low", "critical", "info", "high">>
    /\ \A i \in 1..4 : findings[i].asset_name = <<"a">> /\ findings[i].title = <<"b">>

\* C3 as stated: the query returns the findings by stored severity rank
\* (info 1, low 2, medium 3, high 4, critical and unknown 0) descending,
\* then asset name, then title; the example comes out high, low, info,
\* critical.
C3_Original ==
    C3_Ordered
        => /\ C3_IsPermutation
           /\ \A k \in 1..(Len(result.order) - 1) : C3_StoredRankKey(C3_Row(k), C3_Row(k + 1))
           /\ C3_Example => result.order = <<4, 1, 3, 2>>

\* C3 as amended: the query returns the findings by its own severity order
\* (info 0, low 1, medium 2, high 3, critical 4, any other label 0)
\* descending, then asset name, then title; the example comes out critical,
\* high, low, info.
C3_QueryOrdering ==
    C3_Ordered
        => /\ C3_IsPermutation
           /\ \A k \in 1..(Len(result.order) - 1) : C3_QueryKey(C3_Row(k), C3_Row(k + 1))
           /\ C3_Example => result.order = <<2, 4, 1, 3>>

C3_Witness == C3_Ordered /\ C3_Example /\ result.order = <<2, 4, 1, 3>>

\* ---- evaluate_alert_rules, stated from the rules and the store
EvaluateCalled == result.op = "evaluate_alert_rules"

RuleSelected(i) ==
    /\ rules[i].enabled
    /\ rules[i].scope = "finding"
    /\ probe.args[1] = "all" \/ rules[i].trigger = probe.args[1]

RuleEmpty(i) == rules[i].condition = <<>>

RuleLookup(i) == rules[i].scope_attr \o rules[i].condition[1][1]

StoredEntity == IF result.kind = "Finding" THEN findings ELSE rawFindings

\* the rule's first condition names the field severity and its value is
\* the severity of the stored entity with the instance's id
RuleHolds(i) ==
    /\ ~RuleEmpty(i)
    /\ RuleLookup(i) = "severity"
    /\ result.id \in DOMAIN StoredEntity
    /\ StoredEntity[result.id].severity = rules[i].condition[1][2]

RuleLookupFails(i) == ~RuleEmpty(i) /\ RuleLookup(i) # "severity"

NotifyFails(i) == RuleHolds(i) /\ i \in probe.args[2]

ItervaluesFails(i) == ~RuleEmpty(i) /\ result.kind = "RawFinding" /\ py = 3

RuleNumbers == 1..Len(rules)

Notified == {result.trace[k].id : k \in 1..Len(result.trace)}

OnlyNotifies ==
    /\ \A k \in 1..Len(result.trace) : result.trace[k].call = "notify"
    /\ Cardinality(Notified) = Len(result.trace)

\* C6: when no selected rule is malformed and no notify raises, the method
\* returns the number of selected rules whose condition holds of the stored
\* entity, and notifies exactly those rules, once each.
C6_CountsMatchingRules ==
    /\ EvaluateCalled
    /\ \A i \in RuleNumbers : RuleSelected(i) => ~RuleEmpty(i) /\ ~RuleLookupFails(i)
    /\ \A i \in RuleNumbers : RuleSelected(i) => ~NotifyFails(i)
    => LET counted == {i \in RuleNumbers : RuleSelected(i) /\ RuleHolds(i)}
       IN /\ result.outcome = "ok"
          /\ probe.out = <<Cardinality(counted)>>
          /\ OnlyNotifies
          /\ Notified = counted

RuleFails(i) ==
    RuleSelected(i) /\ (RuleLookupFails(i) \/ NotifyFails(i) \/ ItervaluesFails(i))

NoEmptySelected == \A i \in RuleNumbers : RuleSelected(i) => ~RuleEmpty(i)

\* C8 as stated: with no malformed condition among the selected rules, a
\* rule whose lookup or notify fails does not abort the evaluation: every
\* other selected rule that holds is notified and the count returned is
\* their number.
C8_Original ==
    EvaluateCalled /\ NoEmptySelected
        => LET counted == {i \in RuleNumbers :
                              RuleSelected(i) /\ RuleHolds(i) /\ ~RuleFails(i)}
           IN /\ result.outcome = "ok"
              /\ probe.out = <<Cardinality(counted)>>
              /\ counted \subseteq Notified

\* C8 as amended: a rule whose lookup or notify fails aborts the
\* evaluation: the error reaches the caller, no count is returned, the
\* selected rules before the failing one that hold have been notified and
\* no rule after it is.
C8_FailureAborts ==
    EvaluateCalled /\ NoEmptySelected /\ (\E i \in RuleNumbers : RuleFails(i))
        => LET f == CHOOSE i \in RuleNumbers :
                        RuleFails(i) /\ \A j \in 1..(i - 1) : ~RuleFails(j)
           IN /\ result.outcome \in {"FieldError", "NotifyError", "AttributeError"}
              /\ probe.out = <<>>
              /\ OnlyNotifies
              /\ \A i \in 1..(f - 1) : i \in Notified <=> RuleSelected(i) /\ RuleHolds(i)
              /\ \A i \in Notified : i <= f
              /\ f \in Notified <=> result.outcome = "NotifyError"

\* a finding's evaluation raised FieldError on rule 1 and left rule 2,
\* which holds of the stored finding, unnotified
C8_Witness ==
    /\ EvaluateCalled
    /\ result.kind = "Finding"
    /\ Len(rules) = 2
    /\ RuleSelected(1) /\ RuleLookupFails(1)
    /\ RuleSelected(2) /\ RuleHolds(2)
    /\ result.outcome = "FieldError"
    /\ Notified = {}

\* ---- the audit events of the lifecycle
EventsOf(trace) == SelectSeq(trace, LAMBDA c : c.call = "Event.objects.create")

Lifecycle == {"create", "update", "delete"}

EventTypeOf(op) ==
    CASE op = "create" -> "CREATE" [] op = "update" -> "UPDATE" [] op = "delete" -> "DELETE"

DbTypeOf(op) ==
    CASE op = "create" -> "INSERT" [] op = "update" -> "UPDATE" [] op = "delete" -> "DELETE"

\* the call c occurs in the trace before the call d
Precedes(trace, c, d) ==
    \E i, j \in 1..Len(trace) : i < j /\ trace[i] = c /\ trace[j] = d

\* C11: a create, update or delete of a RawFinding or Finding that succeeds
\* emits exactly one event, of kind CREATE, UPDATE or DELETE as the
\* operation is, with severity DEBUG and the entity's id, after the table
\* statement of that row, and the row was inserted, is as written or is
\* absent (a delete through an instance whose row is already gone issues
\* the statement and the event all the same); a
\* deletion of an asset emits one DELETE event for each row it removes; no
\* operation, failed or not, emits an event of another kind than its own.
C11_OneEventAfterStoreChange ==
    [][LET r == result'
           ev == EventsOf(r.trace)
           table == IF r.kind = "Finding" THEN findings ELSE rawFindings
           after == IF r.kind = "Finding" THEN findings' ELSE rawFindings'
           goneRaw == DOMAIN rawFindings \ DOMAIN rawFindings'
           goneFinding == DOMAIN findings \ DOMAIN findings'
       IN r.op \in Lifecycle =>
            /\ \A k \in 1..Len(ev) :
                  /\ ev[k].type = EventTypeOf(r.op)
                  /\ ev[k].severity = "DEBUG"
                  /\ Precedes(r.trace, Db(DbTypeOf(r.op), ev[k].kind, ev[k].id), ev[k])
            /\ r.outcome = "ok" /\ r.kind \in {"RawFinding", "Finding"} =>
                  /\ ev = <<EventCreate(EventTypeOf(r.op), r.kind, r.id)>>
                  /\ r.op = "create" => r.id \in DOMAIN after \ DOMAIN table
                  /\ r.op = "update" =>
                        r.id \in DOMAIN table /\ r.id \in DOMAIN after /\ after[r.id] = held'.inst
                  /\ r.op = "delete" => r.id \notin DOMAIN after
            /\ r.outcome = "ok" /\ r.kind = "Asset" =>
                  /\ Len(ev) = Cardinality(goneRaw) + Cardinality(goneFinding)
                  /\ \A i \in goneRaw :
                        \E k \in 1..Len(ev) : ev[k] = EventCreate("DELETE", "RawFinding", i)
                  /\ \A i \in goneFinding :
                        \E k \in 1..Len(ev) : ev[k] = EventCreate("DELETE", "Finding", i)
      ]_vars

\* an asset was deleted with its raw finding and its finding: two DELETE
\* events, each after the row's removal
C11_Witness ==
    /\ AssetDeleteCalled
    /\ result.outcome = "ok"
    /\ EventsOf(result.trace) = <<EventCreate("DELETE", "RawFinding", 1),
                                  EventCreate("DELETE", "Finding", 1)>>
    /\ rawFindings = EmptyTable /\ findings = EmptyTable

\* C12: no create, update or delete of a RawFinding calls calc_risk_grade,
\* whatever findings its asset has, and the deletion of an asset that
\* removes raw findings but no finding calls it neither.
C12_RawFindingNeverRecomputes ==
    /\ result.kind = "RawFinding" /\ result.op \in Lifecycle
          => CallsTo("calc_risk_grade") = <<>>
    /\ AssetDeleteCalled /\ DbCalls("DELETE", "Finding") = <<>>
          => CallsTo("calc_risk_grade") = <<>>

\* a raw finding was updated while its asset has a stored finding
C12_Witness ==
    /\ result.kind = "RawFinding"
    /\ result.op = "update"
    /\ result.outcome = "ok"
    /\ \E f \in DOMAIN findings : findings[f].asset = result.given.asset
    /\ CallsTo("calc_risk_grade") = <<>>

\* C13: a Finding update whose calc_risk_grade raises ends in that error
\* at the caller, and the row holds what the update wrote: the fields of
\* the instance that was saved, the hash and the rank computed from them,
\* and the time of the update as updated_at.
C13_FailedCascadeKeepsUpdate ==
    [][LET r == result'
       IN r.kind = "Finding" /\ r.op = "update"
             /\ CallsTo("calc_risk_grade")' # <<>>
             /\ CallsTo("Event.objects.create")' = <<>>
          => /\ r.outcome = "CalcRiskGradeError"
             /\ r.id \in DOMAIN findings'
             /\ LET row == findings'[r.id]
                    inst == held'.inst
                IN /\ row.asset_name = inst.asset_name
                   /\ row.title = inst.title
                   /\ row.severity = inst.severity
                   /\ row.hash = C4_Digest(inst.asset_name, inst.title)
                   /\ row.severity_num = C2_Rank(inst.severity)
                   /\ row.updated_at = now'
                   /\ row.created_at = findings[r.id].created_at
      ]_vars

\* a finding created at time 0 with title 'b' holds title 'a' and
\* updated_at 2 after an update at time 2 whose calc_risk_grade raised
C13_Witness ==
    /\ result.kind = "Finding" /\ result.op = "update"
    /\ result.outcome = "CalcRiskGradeError"
    /\ now = 2
    /\ findings[1].created_at = 0
    /\ findings[1].updated_at = 2
    /\ findings[1].title = <<"a">>
    /\ result.given.updated_at = 0

\* s is an initial part of t
IsPrefix(s, t) == Len(s) <= Len(t) /\ \A k \in 1..Len(s) : s[k] = t[k]

\* the steps of a Finding update and of a Finding delete, in order
UpdateSteps(id, asset) ==
    <<Db("UPDATE", "Finding", id), CalcRiskGrade(asset), EventCreate("UPDATE", "Finding", id)>>

DeleteSteps(id, asset) ==
    <<Db("DELETE", "Finding", id), AssetGet(asset), CalcRiskGrade(asset),
      EventCreate("DELETE", "Finding", id)>>

\* the calls of a trace but the closing rollback
Forward(trace) == SelectSeq(trace, LAMBDA c : ~(c.call = "db" /\ c.type = "ROLLBACK"))

\* C14: a Finding update makes its calls in the order table write,
\* calc_risk_grade, UPDATE event, and a Finding delete in the order table
\* delete, Asset.objects.get, calc_risk_grade, DELETE event; one that fails
\* stops somewhere along that order, and one that succeeds made them all.
\* In the deletion of an asset every call of calc_risk_grade comes after the
\* delete statements of the asset's findings, and each DELETE event of a
\* finding after a call of calc_risk_grade.
C14_StepOrder ==
    /\ FindingUpdated =>
          /\ IsPrefix(result.trace, UpdateSteps(result.id, result.given.asset))
          /\ result.outcome = "ok" => result.trace = UpdateSteps(result.id, result.given.asset)
    /\ FindingDeleteCalled =>
          /\ IsPrefix(Forward(result.trace), DeleteSteps(result.id, result.given.asset))
          /\ result.outcome = "ok" => result.trace = DeleteSteps(result.id, result.given.asset)
    /\ AssetDeleteCalled =>
          \A j \in 1..Len(result.trace) :
             LET c == result.trace[j]
             IN /\ c.call = "calc_risk_grade" =>
                      /\ \A i \in 1..Len(result.trace) :
                            result.trace[i].call = "db" /\ result.trace[i].type = "DELETE"
                               /\ result.trace[i].kind = "Finding" => i < j
                      /\ j > 1 /\ result.trace[j - 1] = AssetGet(result.id)
                /\ c.call = "Event.objects.create" /\ c.kind = "Finding" =>
                      /\ j > 1 /\ result.trace[j - 1] = CalcRiskGrade(result.id)
                      /\ Precedes(result.trace, Db("DELETE", "Finding", c.id), c)

\* a Finding delete stopped at calc_risk_grade, after the table delete and
\* the asset's resolution and before the event
C14_Witness ==
    /\ FindingDeleteCalled
    /\ result.outcome = "CalcRiskGradeError"
    /\ Forward(result.trace) = SubSeq(DeleteSteps(1, 1), 1, 3)

\* C15: no create, update or delete of a RawFinding or a Finding, and no
\* deletion of an asset with its findings, calls notify of any rule.
C15_NoImplicitNotify ==
    result.op \in Lifecycle => CallsTo("notify") = <<>>

\* a finding was created and its CREATE event is the only call after the
\* table write
C15_Witness ==
    /\ FindingCreated
    /\ result.outcome = "ok"
    /\ result.trace = <<Db("INSERT", "Finding", 1), EventCreate("CREATE", "Finding", 1)>>

\* ---- callers side by side
AllReturned == \A w \in Workers : workers[w].pc = "done"

\* C16: when every concurrent update and delete of findings has returned,
\* and none of the saves inserted a row, the grade of each asset is the one
\* a calc_risk_grade() reads from the findings now stored.
C16_GradeReflectsStore ==
    AllReturned /\ (\A w \in Workers : ~workers[w].created)
        => \A a \in Assets : grades[a] = GradeOf(findings, a)

\* ---- audit events and failed cascades
CascadeFailed == result.outcome \in {"CalcRiskGradeError", "DoesNotExist"}

SansRawFinding(row) == [row EXCEPT !.raw_finding = 0]

\* C18: a RawFinding delete that goes through removes the raw finding's row
\* and no finding: every finding that referred to it is stored with the
\* reference null and every other field as before, every other finding is
\* untouched, and the only calls are the NULL updates, the row's DELETE and
\* the one RawFinding DELETE event (no Finding event, no calc_risk_grade).
\* A raw finding deleted with its asset leaves the findings of other assets
\* that referred to it stored in the same way.
C18_DerivedFindingSurvives ==
    [][LET r == result'
       IN /\ r.kind = "Asset" /\ r.op = "delete" /\ r.outcome = "ok" =>
               \A i \in DOMAIN findings :
                  findings[i].asset # r.id =>
                     /\ i \in DOMAIN findings'
                     /\ SansRawFinding(findings'[i]) = SansRawFinding(findings[i])
                     /\ findings'[i].raw_finding =
                           IF findings[i].raw_finding \in DOMAIN rawFindings'
                           THEN findings[i].raw_finding ELSE 0
          /\ r.kind = "RawFinding" /\ r.op = "delete" /\ r.outcome = "ok" =>
            /\ r.id \notin DOMAIN rawFindings'
            /\ DOMAIN findings' = DOMAIN findings
            /\ \A i \in DOMAIN findings :
                  IF findings[i].raw_finding = r.id
                  THEN /\ findings'[i].raw_finding = 0
                       /\ SansRawFinding(findings'[i]) = SansRawFinding(findings[i])
                  ELSE findings'[i] = findings[i]
            /\ EventsOf(r.trace) = <<EventCreate("DELETE", "RawFinding", r.id)>>
            /\ CallsTo("calc_risk_grade")' = <<>>
            /\ \A k \in 1..Len(r.trace) :
                  r.trace[k].kind = "Finding" =>
                     /\ r.trace[k] = Db("SET_NULL", "Finding", r.trace[k].id)
                     /\ findings[r.trace[k].id].raw_finding = r.id
      ]_vars

\* raw finding 1 was deleted and finding 1, which was derived from it, is
\* stored with a null reference
C18_Witness ==
    /\ result.kind = "RawFinding" /\ result.op = "delete" /\ result.outcome = "ok"
    /\ result.trace = <<Db("SET_NULL", "Finding", 1), Db("DELETE", "RawFinding", 1),
                        EventCreate("DELETE", "RawFinding", 1)>>
    /\ 1 \in DOMAIN findings
    /\ findings[1].raw_finding = 0

====
